---- MODULE Spec2Model ----
(***************************************************************************)
(* The configuration store of kodegen-tools-config and its debounced       *)
(* background saver.                                                       *)
(*                                                                         *)
(*   src/src/config_model.rs   ServerConfig and its defaults               *)
(*   src/src/manager.rs        ConfigManager: init, get_value, set_value,  *)
(*                             set_client_info                             *)
(*   src/src/persistence.rs    save_to_disk, start_background_saver,       *)
(*                             CONFIG_SAVE_ERRORS                          *)
(*   src/src/env_loader.rs     the two directory lists of the environment  *)
(*   src/src/lib.rs            start_server: new(), init(), then the tools *)
(*                                                                         *)
(* A Rust String is a sequence of chunks: a chunk is " " (whitespace), ":" *)
(* (the path-list separator) or a run of other characters.  Concatenation  *)
(* is \o.  Keys and client names are never taken apart and stay TLA+       *)
(* strings.                                                                *)
(***************************************************************************)
EXTENDS Integers, Sequences, FiniteSets, TLC

\* ------------------------------------------------------------------ bounds
\* set_value / set_client_info calls made in one run
MaxCalls == 2
\* readings of the wall clock (chrono::Utc::now) are 0..MaxUtc
MaxUtc == 2
\* I/O failures (serialization, file write) one run may suffer
MaxFaults == 1
\* milliseconds by which one Tick advances the timers
TimeStep == 100
\* stands for i64::MAX: every i64 of the model is at most this
I64_MAX == 1000000

\* ------------------------------------------------------- program constants
DEBOUNCE_MS == 300
POLL_MS == 100
DEFAULT_FILE_READ_LINE_LIMIT == 1000
DEFAULT_FILE_WRITE_LINE_LIMIT == 50
DEFAULT_HTTP_CONNECTION_TIMEOUT_SECS == 5
DEFAULT_PATH_VALIDATION_TIMEOUT_MS == 30000
\* the f64 0.7, as hundredths (see F64)
DEFAULT_FUZZY_SEARCH_THRESHOLD == 70

Min(a, b) == IF a < b THEN a ELSE b
Max(a, b) == IF a > b THEN a ELSE b

\* ----------------------------------------------------------------- values
None == [some |-> FALSE]
Some(x) == [some |-> TRUE, v |-> x]

Ok == [ok |-> TRUE]
\* An error message is the sequence of the pieces format! joins.
Err(msg) == [ok |-> FALSE, err |-> msg]

\* One-chunk string.
S(chunk) == <<chunk>>

\* kodegen_mcp_schema::config::ConfigValue
CvString(s) == [kind |-> "String", s |-> s]
CvNumber(n) == [kind |-> "Number", n |-> n]
CvBoolean(b) == [kind |-> "Boolean", b |-> b]
CvArray(a) == [kind |-> "Array", a |-> a]

\* ConfigValue::into_array / into_string / into_number: the payload of the one
\* matching variant, an error message for every other variant.
into_array(value) ==
  IF value.kind = "Array" THEN [ok |-> TRUE, v |-> value.a]
  ELSE Err(<<"type mismatch: expected array">>)

into_string(value) ==
  IF value.kind = "String" THEN [ok |-> TRUE, v |-> value.s]
  ELSE Err(<<"type mismatch: expected string">>)

into_number(value) ==
  IF value.kind = "Number" THEN [ok |-> TRUE, v |-> value.n]
  ELSE Err(<<"type mismatch: expected number">>)

\* usize::try_from(i64) / u64::try_from(i64): fails below zero.
usize_try_from(num) ==
  IF num >= 0 THEN [ok |-> TRUE, v |-> num] ELSE Err(<<"out of range">>)

\* i64::try_from(usize).unwrap_or(i64::MAX)
i64_try_from_or_max(x) == IF x <= I64_MAX THEN x ELSE I64_MAX

\* (num as f64), the division by 100.0 left out.
F64FromPercentUndivided(num) == num * 100

\* An f64 is kept as the integer h of hundredths it is nearest to: h stands for
\* the double nearest to h/100.  (num as f64) / 100.0
F64FromPercent(num) == num

\* ------------------------------------------------------------ ServerConfig
SYSTEM_INFO_NOW == "system_info_of_this_run"

DefaultBlockedCommands ==
  << S("rm"), S("rmdir"), S("del"), S("format"), S("dd"), S("shred"),
     S("sudo"), S("su"), S("passwd"), S("useradd"), S("userdel"),
     S("chmod"), S("chown"), S("shutdown"), S("reboot"), S("halt"),
     S("poweroff") >>

\* impl Default for ServerConfig
DefaultConfig ==
  [ blocked_commands |-> DefaultBlockedCommands,
    default_shell |-> S("/bin/sh"),
    allowed_directories |-> << >>,
    denied_directories |-> << >>,
    file_read_line_limit |-> DEFAULT_FILE_READ_LINE_LIMIT,
    file_write_line_limit |-> DEFAULT_FILE_WRITE_LINE_LIMIT,
    fuzzy_search_threshold |-> DEFAULT_FUZZY_SEARCH_THRESHOLD,
    http_connection_timeout_secs |-> DEFAULT_HTTP_CONNECTION_TIMEOUT_SECS,
    path_validation_timeout_ms |-> DEFAULT_PATH_VALIDATION_TIMEOUT_MS,
    current_client |-> None,
    client_history |-> << >>,
    system_info |-> SYSTEM_INFO_NOW,
    save_error_count |-> 0 ]

\* ------------------------------------------------------------ f64 arithmetic
RECURSIVE Pow2(_)
Pow2(n) == IF n = 0 THEN 1 ELSE 2 * Pow2(n - 1)

RECURSIVE Pow2Mod100(_)
Pow2Mod100(k) == IF k = 0 THEN 1 ELSE (2 * Pow2Mod100(k - 1)) % 100

\* floor(log2(a)), a >= 1
RECURSIVE Log2Floor(_)
Log2Floor(a) == IF a < 2 THEN 0 ELSE 1 + Log2Floor(a \div 2)

\* The least i (negative for a >= 200) with a * 2^i >= 100, a >= 1.
RECURSIVE ScaleUp(_)
ScaleUp(a) == IF a >= 100 THEN 0 ELSE 1 + ScaleUp(2 * a)

RECURSIVE ScaleDown(_)
ScaleDown(a) == IF a < 200 THEN 0 ELSE 1 + ScaleDown(a \div 2)

Scale(a) == IF a < 100 THEN ScaleUp(a) ELSE 0 - ScaleDown(a)

\* trunc(RN(RN(a/100) * 100)) for an integer a >= 1, in IEEE-754 binary64 with
\* round-to-nearest-even.  With k = 52 + Scale(a) the significand of RN(a/100)
\* is m = round(a * 2^k / 100) and r = (a * 2^k) mod 100 decides its rounding
\* (r = 50 cannot occur: a * 2^k is a multiple of 4).  Rounded up, the product
\* m * 100 / 2^k lies above a and below a + 1, and truncates to a.  Rounded down
\* it is a - r / 2^k, which rounds to the double below a, and truncates to a - 1,
\* exactly when r / 2^k exceeds half the gap below a: 2^(j-53), halved again
\* when a is the power of two 2^j.
MulTrunc(a) ==
  LET i == Scale(a)
      k == 52 + i
      j == Log2Floor(a)
      d == i + j
      r == ((a % 100) * Pow2Mod100(k)) % 100
      half == IF a = Pow2(j) THEN Pow2(d - 2) ELSE Pow2(d - 1)
  IN  IF r < 50 /\ r > half THEN a - 1 ELSE a

\* (x * 100.0) as i64, x the double nearest to h/100
F64Times100AsI64(h) ==
  IF h = 0 THEN 0
  ELSE IF h > 0 THEN MulTrunc(h)
  ELSE 0 - MulTrunc(0 - h)

\* ------------------------------------------------------------- ConfigManager
\* get_value with an arm for path_validation_timeout_ms that set_value lacks.
get_value_with_path_timeout(cfg, key) ==
  CASE key = "blocked_commands" -> Some([kind |-> "Array", a |-> cfg.blocked_commands])
    [] key = "default_shell" -> Some([kind |-> "String", s |-> cfg.default_shell])
    [] key = "allowed_directories" ->
         Some([kind |-> "Array", a |-> cfg.allowed_directories])
    [] key = "denied_directories" ->
         Some([kind |-> "Array", a |-> cfg.denied_directories])
    [] key \in {"file_read_line_limit", "file_write_line_limit",
                "http_connection_timeout_secs", "path_validation_timeout_ms"} ->
         Some([kind |-> "Number", n |-> cfg[key]])
    [] key = "fuzzy_search_threshold" ->
         Some([kind |-> "Number", n |-> cfg.fuzzy_search_threshold])
    [] OTHER -> None

\* ConfigManager::get_config: self.config.read().clone()
get_config(cfg) == cfg

\* GetConfigTool::execute with the two fields left as the clone has them.
execute_unrefreshed(cfg, counter) == get_config(cfg)

\* GetConfigTool::execute: the clone, system_info and save_error_count set
\* anew from get_system_info() and the process-wide counter.
execute(cfg, counter) ==
  [get_config(cfg) EXCEPT !.system_info = SYSTEM_INFO_NOW,
                          !.save_error_count = counter]

\* ConfigManager::get_value on the snapshot cfg
get_value(cfg, key) ==
  CASE key = "blocked_commands" -> Some(CvArray(cfg.blocked_commands))
    [] key = "default_shell" -> Some(CvString(cfg.default_shell))
    [] key = "allowed_directories" -> Some(CvArray(cfg.allowed_directories))
    [] key = "denied_directories" -> Some(CvArray(cfg.denied_directories))
    [] key = "file_read_line_limit" ->
         Some(CvNumber(i64_try_from_or_max(cfg.file_read_line_limit)))
    [] key = "file_write_line_limit" ->
         Some(CvNumber(i64_try_from_or_max(cfg.file_write_line_limit)))
    [] key = "fuzzy_search_threshold" ->
         Some(CvNumber(F64Times100AsI64(cfg.fuzzy_search_threshold)))
    [] key = "http_connection_timeout_secs" ->
         Some(CvNumber(i64_try_from_or_max(cfg.http_connection_timeout_secs)))
    [] OTHER -> None

\* SetPositive with zero let through: `num < 0` for `num <= 0`.
SetPositiveZeroAllowed(cfg, key, value) ==
  LET num == into_number(value)
  IN  IF ~num.ok THEN [res |-> Err(num.err), cfg |-> cfg]
      ELSE IF num.v < 0
        THEN [res |-> Err(<<key, " must be positive">>), cfg |-> cfg]
      ELSE [res |-> Ok, cfg |-> [cfg EXCEPT ![key] = num.v]]

\* SetPositive with the field assigned before the sign is checked.
SetPositiveAssignFirst(cfg, key, value) ==
  LET num == into_number(value)
  IN  IF ~num.ok THEN [res |-> Err(num.err), cfg |-> cfg]
      ELSE IF num.v <= 0
        THEN [res |-> Err(<<key, " must be positive">>),
              cfg |-> [cfg EXCEPT ![key] = num.v]]
      ELSE [res |-> Ok, cfg |-> [cfg EXCEPT ![key] = num.v]]

\* SetPositive with the arm of one line limit assigning the other one too.
SetPositiveBothLimits(cfg, key, value) ==
  LET num == into_number(value)
  IN  IF ~num.ok THEN [res |-> Err(num.err), cfg |-> cfg]
      ELSE IF num.v <= 0
        THEN [res |-> Err(<<key, " must be positive">>), cfg |-> cfg]
      ELSE [res |-> Ok,
            cfg |-> IF key = "http_connection_timeout_secs"
                      THEN [cfg EXCEPT ![key] = num.v]
                      ELSE [cfg EXCEPT !.file_read_line_limit = num.v,
                                       !.file_write_line_limit = num.v]]

\* The arm of set_value for a key holding a positive number.
SetPositive(cfg, key, value) ==
  LET num == into_number(value)
  IN  IF ~num.ok THEN [res |-> Err(num.err), cfg |-> cfg]
      ELSE IF num.v <= 0
        THEN [res |-> Err(<<key, " must be positive">>), cfg |-> cfg]
      ELSE LET n == usize_try_from(num.v)
           IN  IF ~n.ok THEN [res |-> Err(<<key, " value out of range">>), cfg |-> cfg]
               ELSE [res |-> Ok, cfg |-> [cfg EXCEPT ![key] = n.v]]

\* SetArray adding to the list in place of replacing it.
SetArrayAppending(cfg, key, value) ==
  IF value.kind = "Array"
    THEN [res |-> Ok, cfg |-> [cfg EXCEPT ![key] = @ \o value.a]]
  ELSE [res |-> Err(<<"type mismatch: expected array">>), cfg |-> cfg]

\* SetArray with a lone string taken as the array of that one string.
SetArrayWrapping(cfg, key, value) ==
  IF value.kind = "String"
    THEN [res |-> Ok, cfg |-> [cfg EXCEPT ![key] = <<value.s>>]]
  ELSE IF value.kind = "Array"
    THEN [res |-> Ok, cfg |-> [cfg EXCEPT ![key] = value.a]]
  ELSE [res |-> Err(<<"type mismatch: expected array">>), cfg |-> cfg]

\* The arm of set_value for a key holding an array of strings.
SetArray(cfg, key, value) ==
  LET a == into_array(value)
  IN  IF ~a.ok THEN [res |-> Err(a.err), cfg |-> cfg]
      ELSE [res |-> Ok, cfg |-> [cfg EXCEPT ![key] = a.v]]

\* set_value with a key it does not know passed over in silence.
set_value_ignoring_unknown(cfg, key, value) ==
  CASE key \in {"blocked_commands", "allowed_directories", "denied_directories"} ->
         [res |-> IF value.kind = "Array" THEN Ok
                  ELSE Err(<<"type mismatch: expected array">>),
          cfg |-> IF value.kind = "Array" THEN [cfg EXCEPT ![key] = value.a]
                  ELSE cfg]
    [] key = "default_shell" ->
         [res |-> IF value.kind = "String" THEN Ok
                  ELSE Err(<<"type mismatch: expected string">>),
          cfg |-> IF value.kind = "String"
                    THEN [cfg EXCEPT !.default_shell = value.s] ELSE cfg]
    [] key \in {"file_read_line_limit", "file_write_line_limit",
                "http_connection_timeout_secs"} ->
         IF value.kind # "Number"
           THEN [res |-> Err(<<"type mismatch: expected number">>), cfg |-> cfg]
         ELSE IF value.n <= 0
           THEN [res |-> Err(<<key, " must be positive">>), cfg |-> cfg]
         ELSE [res |-> Ok, cfg |-> [cfg EXCEPT ![key] = value.n]]
    [] key = "fuzzy_search_threshold" ->
         IF value.kind # "Number"
           THEN [res |-> Err(<<"type mismatch: expected number">>), cfg |-> cfg]
         ELSE IF ~(0 <= value.n /\ value.n <= 100)
           THEN [res |-> Err(<<key, " must be between 0 and 100">>), cfg |-> cfg]
         ELSE [res |-> Ok,
               cfg |-> [cfg EXCEPT !.fuzzy_search_threshold = value.n]]
    [] OTHER -> [res |-> Ok, cfg |-> cfg]

\* The locked block of ConfigManager::set_value: the result, and the snapshot
\* the write guard leaves behind.
set_value(cfg, key, value) ==
  CASE key \in {"blocked_commands", "allowed_directories", "denied_directories"} ->
         SetArray(cfg, key, value)
    [] key = "default_shell" ->
         LET s == into_string(value)
         IN  IF ~s.ok THEN [res |-> Err(s.err), cfg |-> cfg]
             ELSE [res |-> Ok, cfg |-> [cfg EXCEPT !.default_shell = s.v]]
    [] key \in {"file_read_line_limit", "file_write_line_limit",
                "http_connection_timeout_secs"} ->
         SetPositive(cfg, key, value)
    [] key = "fuzzy_search_threshold" ->
         LET num == into_number(value)
         IN  IF ~num.ok THEN [res |-> Err(num.err), cfg |-> cfg]
             ELSE IF ~(0 <= num.v /\ num.v <= 100)
               THEN [res |-> Err(<<key, " must be between 0 and 100">>), cfg |-> cfg]
             ELSE [res |-> Ok,
                   cfg |-> [cfg EXCEPT !.fuzzy_search_threshold =
                                          F64FromPercent(num.v)]]
    [] OTHER -> [res |-> Err(<<"Unknown config key: ", key>>), cfg |-> cfg]

\* The locked block of ConfigManager::set_client_info, now = chrono::Utc::now().
SameClient(r, client_info) ==
  /\ r.client_info.name = client_info.name
  /\ r.client_info.version = client_info.version

\* set_client_info with current_client set in the branch that pushes alone.
set_client_info_new_only(cfg, client_info, now) ==
  LET hist == cfg.client_history
      found == {i \in 1..Len(hist) : SameClient(hist[i], client_info)}
      first == CHOOSE i \in found : \A k \in found : i <= k
  IN  IF found # {}
        THEN [cfg EXCEPT !.client_history[first].last_seen = now]
        ELSE [cfg EXCEPT !.client_history =
                            Append(hist, [client_info |-> client_info,
                                          connected_at |-> now,
                                          last_seen |-> now]),
                         !.current_client = Some(client_info)]

\* set_client_info without the lookup: a record is pushed on every call.
set_client_info_push(cfg, client_info, now) ==
  [cfg EXCEPT !.client_history =
                 Append(@, [client_info |-> client_info,
                            connected_at |-> now,
                            last_seen |-> now]),
              !.current_client = Some(client_info)]

\* set_client_info with the found record stamped anew on both times.
set_client_info_restamp(cfg, client_info, now) ==
  LET hist == cfg.client_history
      found == {i \in 1..Len(hist) : SameClient(hist[i], client_info)}
      first == CHOOSE i \in found : \A k \in found : i <= k
      hist2 ==
        IF found # {}
          THEN [hist EXCEPT ![first].last_seen = now,
                            ![first].connected_at = now]
          ELSE Append(hist, [client_info |-> client_info,
                             connected_at |-> now,
                             last_seen |-> now])
  IN  [cfg EXCEPT !.client_history = hist2,
                  !.current_client = Some(client_info)]

\* set_client_info with a new record put at the front of the history.
set_client_info_prepend(cfg, client_info, now) ==
  LET hist == cfg.client_history
      found == {i \in 1..Len(hist) : SameClient(hist[i], client_info)}
      first == CHOOSE i \in found : \A k \in found : i <= k
      hist2 ==
        IF found # {}
          THEN [hist EXCEPT ![first].last_seen = now]
          ELSE << [client_info |-> client_info,
                   connected_at |-> now,
                   last_seen |-> now] >> \o hist
  IN  [cfg EXCEPT !.client_history = hist2,
                  !.current_client = Some(client_info)]

\* set_client_info without the push: a client with no record becomes the
\* current client and gets none.
set_client_info_current_only(cfg, client_info, now) ==
  LET hist == cfg.client_history
      found == {i \in 1..Len(hist) : SameClient(hist[i], client_info)}
      first == CHOOSE i \in found : \A k \in found : i <= k
      hist2 ==
        IF found # {}
          THEN [hist EXCEPT ![first].last_seen = now]
          ELSE hist
  IN  [cfg EXCEPT !.client_history = hist2,
                  !.current_client = Some(client_info)]

set_client_info(cfg, client_info, now) ==
  LET hist == cfg.client_history
      found == {i \in 1..Len(hist) : SameClient(hist[i], client_info)}
      first == CHOOSE i \in found : \A k \in found : i <= k
      hist2 ==
        IF found # {}
          THEN [hist EXCEPT ![first].last_seen = now]
          ELSE Append(hist, [client_info |-> client_info,
                             connected_at |-> now,
                             last_seen |-> now])
  IN  [cfg EXCEPT !.client_history = hist2,
                  !.current_client = Some(client_info)]

\* --------------------------------------------------------------- env_loader
IsSeparator(c) == c = ":"
IsWhitespace(c) == c = " "

\* str::split(separator)
RECURSIVE Split(_)
Split(s) ==
  LET seps == {i \in 1..Len(s) : IsSeparator(s[i])}
      p == CHOOSE i \in seps : \A k \in seps : i <= k
  IN  IF seps = {} THEN <<s>>
      ELSE <<SubSeq(s, 1, p - 1)>> \o Split(SubSeq(s, p + 1, Len(s)))

\* str::trim
RECURSIVE TrimStart(_)
TrimStart(s) ==
  IF s # << >> /\ IsWhitespace(Head(s)) THEN TrimStart(Tail(s)) ELSE s

RECURSIVE TrimEnd(_)
TrimEnd(s) ==
  IF s # << >> /\ IsWhitespace(s[Len(s)])
    THEN TrimEnd(SubSeq(s, 1, Len(s) - 1)) ELSE s

\* str::trim_start in the place of str::trim
TrimStartOnly(s) == TrimStart(s)

Trim(s) == TrimEnd(TrimStart(s))

NonEmpty(s) == s # << >>

\* load_allowed_dirs_from_env / load_denied_dirs_from_env on the result of
\* std::env::var(..).ok()
load_dirs_from_env(var) ==
  IF ~var.some THEN << >>
  ELSE LET segs == Split(var.v)
       IN  SelectSeq([i \in 1..Len(segs) |-> Trim(segs[i])], NonEmpty)

\* ------------------------------------------------------------ the JSON file
Fields ==
  { "blocked_commands", "default_shell", "allowed_directories",
    "denied_directories", "file_read_line_limit", "file_write_line_limit",
    "fuzzy_search_threshold", "http_connection_timeout_secs",
    "path_validation_timeout_ms", "current_client", "client_history",
    "system_info", "save_error_count" }

\* Fields with neither #[serde(default)] nor an Option type.
RequiredFields ==
  { "blocked_commands", "default_shell", "allowed_directories",
    "denied_directories", "file_read_line_limit", "file_write_line_limit",
    "system_info" }

UnsignedFields ==
  { "file_read_line_limit", "file_write_line_limit",
    "http_connection_timeout_secs", "path_validation_timeout_ms",
    "save_error_count" }

\* Serialization with current_client always skipped.
SerializeSkippingClient(cfg) ==
  [f \in Fields \ {"current_client"} |-> cfg[f]]

\* serde_json::to_string_pretty(&ServerConfig): the document's members.
\* current_client is skipped when None and written bare when Some.
Serialize(cfg) ==
  [f \in (IF cfg.current_client.some THEN Fields
          ELSE Fields \ {"current_client"}) |->
     IF f = "current_client" THEN cfg.current_client.v ELSE cfg[f]]

\* serde_json::from_str::<ServerConfig> succeeds on the members doc.
Parses(doc) ==
  /\ RequiredFields \subseteq DOMAIN doc
  /\ \A f \in UnsignedFields \cap DOMAIN doc : doc[f] >= 0

\* serde_json::from_str::<ServerConfig>(doc), Parses(doc)
Deserialize(doc) ==
  [f \in Fields |->
     IF f = "current_client"
       THEN (IF f \in DOMAIN doc THEN Some(doc[f]) ELSE None)
     ELSE IF f \in DOMAIN doc THEN doc[f]
     ELSE DefaultConfig[f]]

FileAbsent == [kind |-> "absent"]
FileMalformed == [kind |-> "malformed"]
FileJson(doc) == [kind |-> "json", doc |-> doc]

\* ------------------------------------------------------------------ inputs
Client(name, version) == [name |-> name, version |-> version]

Clients == { Client("claude", "1.0"), Client("claude", "2.0") }

NoTime == 0 - 1

Record(c, connected_at, last_seen) ==
  [client_info |-> c, connected_at |-> connected_at, last_seen |-> last_seen]

SYSTEM_INFO_OLD == "system_info_of_an_earlier_run"

\* Snapshots an earlier run of this program left in the file.
EarlierSnapshots ==
  { [DefaultConfig EXCEPT !.system_info = SYSTEM_INFO_OLD],
    [DefaultConfig EXCEPT !.system_info = SYSTEM_INFO_OLD,
                          !.file_read_line_limit = 2500,
                          !.allowed_directories = << S("/old") >>,
                          !.current_client = Some(Client("claude", "1.0")),
                          !.client_history =
                             << Record(Client("claude", "1.0"), 0, 0) >>] }

\* A file of a version of the program that knew fewer fields.
LegacyDoc ==
  [f \in RequiredFields |->
     [DefaultConfig EXCEPT !.system_info = SYSTEM_INFO_OLD][f]]

\* What start_server may find at the config path: nothing, a file cut short,
\* or a document the program wrote.
ProgramFiles ==
  {FileAbsent, FileMalformed, FileJson(LegacyDoc)}
    \cup {FileJson(Serialize(c)) : c \in EarlierSnapshots}

\* Documents that parse and were edited by hand.
EditedFiles ==
  { FileJson(Serialize([DefaultConfig EXCEPT !.file_read_line_limit = 0])),
    FileJson(Serialize([DefaultConfig EXCEPT !.file_write_line_limit = 0])),
    FileJson(Serialize([DefaultConfig EXCEPT
                          !.http_connection_timeout_secs = 0])),
    FileJson(Serialize([DefaultConfig EXCEPT !.fuzzy_search_threshold = 150])),
    FileJson(Serialize([DefaultConfig EXCEPT
                          !.path_validation_timeout_ms = 700000])),
    FileJson(Serialize([DefaultConfig EXCEPT
                          !.file_read_line_limit = I64_MAX + 1])),
    FileJson(Serialize([DefaultConfig EXCEPT !.file_read_line_limit = 0 - 1])) }

\* Values of KODEGEN_ALLOWED_DIRS / KODEGEN_DENIED_DIRS.
EnvValues ==
  { None,
    Some(<< "/a" >>),
    Some(<< " ", "/a", " ", ":", ":", "/b", "x", " " >>),
    Some(<< " ", ":" >>),
    Some(<< "/my", " ", "dir", ":" >>) }

Keys ==
  { "blocked_commands", "default_shell", "allowed_directories",
    "denied_directories", "file_read_line_limit", "file_write_line_limit",
    "fuzzy_search_threshold", "http_connection_timeout_secs",
    "path_validation_timeout_ms", "nonexistent_key", "Default_Shell" }

Numbers ==
  { 0 - 100, 0 - 1, 0, 1, 29, 57, 58, 99, 100, 101, 600000, 600001, 700000,
    I64_MAX }

Values ==
  {CvNumber(n) : n \in Numbers}
    \cup { CvArray(<< >>), CvArray(<< S("/home/user/projects") >>),
           CvString(S("/bin/bash")), CvBoolean(TRUE) }

\* The calls of a run of the whole system.
SystemCalls ==
  { <<"file_read_line_limit", CvNumber(2500)>>,
    <<"file_read_line_limit", CvNumber(0 - 100)>> }

SystemEnv == { Some(<< "/a", ":", " " >>) }

\* The calls of the runs whose whole future is followed.
LiveCalls == { <<"file_read_line_limit", CvNumber(2500)>> }
LiveClients == { Client("claude", "1.0") }

\* ------------------------------------------------------------------- state
VARIABLES
  config,              \* Arc<RwLock<ServerConfig>>: the in-memory snapshot
  file,                \* what is at config_path
  phase,               \* start_server: "new", "init_save", "ready",
                       \*   "init_failed", "dropped", "aborted"
  closed,              \* every save_sender is dropped
  channel,             \* the unbounded channel of save signals
  sending,             \* calls past their locked block, their send still due
  calls,               \* set_value / set_client_info calls made
  last,                \* the last call made: its arguments, whether it
                       \*   returned Ok, the message of its error
  has_pending_save,    \* the worker's flag
  since_request,       \* last_save_request.elapsed(), in ms, at most DEBOUNCE_MS
  sleep_left,          \* ms left of the worker's current sleep
  worker_pc,           \* "select": in tokio::select!; "write": in fs::write
  json,                \* the string the worker is writing
  CONFIG_SAVE_ERRORS,  \* the process-wide failure counter
  faults,              \* I/O failures so far
  write_failed,        \* some write of the file has failed
  utc,                 \* the last reading of chrono::Utc::now()
  ver,                 \* history: committed mutations so far
  json_ver,            \* history: ver when json was serialized
  last_recv_ver,       \* history: ver committed by the sender of the last
                       \*   signal received
  chain_len,           \* history: signals received each less than DEBOUNCE_MS
                       \*   after the one before it, up to the last one
  chain_writes,        \* history: worker writes begun since that chain began
  seen,                \* history: per client, the times of the first and the
                       \*   last set_client_info call
  fresh,               \* history: a signal has been received since the
                       \*   worker's last save attempt
  applied,             \* history: the set_value calls that have returned Ok
                       \*   since the initial state, in the order of their
                       \*   locked blocks
  lock                 \* the guards of the RwLock alive between steps: who
                       \*   holds one and in which mode

store_vars == <<config, file, phase, closed, channel, sending, calls, last>>
worker_vars ==
  <<has_pending_save, since_request, sleep_left, worker_pc, json,
    CONFIG_SAVE_ERRORS>>
history_vars ==
  <<ver, json_ver, last_recv_ver, chain_len, chain_writes, seen, fresh,
    applied>>
vars ==
  <<store_vars, worker_vars, history_vars, faults, write_failed, utc, lock>>

\* RwLock::write() returns when no guard is alive, RwLock::read() when no
\* write guard is.  A guard dies at the end of the block or statement that
\* made it.
CanWrite == lock = {}
CanRead == \A g \in lock : g.mode = "shared"
Guard(who, mode) == [who |-> who, mode |-> mode]
\* The lock after a block that takes a guard and ends.
TakenAndDropped(who, mode) ==
  {g \in lock \cup {Guard(who, mode)} : g.who # who}

\* ConfigManager::new(): the default snapshot, the channel, the worker spawned
\* with has_pending_save = false and last_save_request = now.
InitWith(files) ==
  /\ config = DefaultConfig
  /\ file \in files
  /\ phase = "new"
  /\ closed = FALSE
  /\ channel = << >>
  /\ sending = {}
  /\ calls = 0
  /\ last = [op |-> "none", args |-> << >>, ok |-> TRUE, err |-> << >>]
  /\ has_pending_save = FALSE
  /\ since_request = 0
  /\ sleep_left = POLL_MS
  /\ worker_pc = "select"
  /\ json = None
  /\ CONFIG_SAVE_ERRORS = 0
  /\ faults = 0
  /\ write_failed = FALSE
  /\ utc = 0
  /\ ver = 0
  /\ json_ver = 0
  /\ last_recv_ver = 0
  /\ chain_len = 0
  /\ chain_writes = 0
  /\ seen = [c \in Clients |-> [first |-> NoTime, last |-> NoTime]]
  /\ fresh = FALSE
  /\ applied = << >>
  /\ lock = {}

Init == InitWith(ProgramFiles)

\* The calls a loaded history records, made in earlier runs.
SeenIn(hist) ==
  [c \in Clients |->
     LET found == {i \in 1..Len(hist) : SameClient(hist[i], c)}
         i == CHOOSE k \in found : TRUE
     IN  IF found = {} THEN [first |-> NoTime, last |-> NoTime]
         ELSE [first |-> hist[i].connected_at, last |-> hist[i].last_seen]]

\* init with the lists of the environment added to the lists of the file.
InitLoadMerging(allowed_env, denied_env) ==
  /\ phase = "new"
  /\ \/ /\ faults < MaxFaults
        /\ faults' = faults + 1
        /\ phase' = "init_failed"
        /\ UNCHANGED <<config, seen>>
     \/ /\ file.kind = "malformed" \/ (file.kind = "json" /\ ~Parses(file.doc))
        /\ phase' = "init_failed"
        /\ UNCHANGED <<config, seen, faults>>
     \/ \E env_allowed \in allowed_env, env_denied \in denied_env :
          LET loaded ==
                IF file.kind = "json" THEN Deserialize(file.doc)
                ELSE DefaultConfig
              loaded_config ==
                [loaded EXCEPT
                   !.allowed_directories =
                      @ \o load_dirs_from_env(env_allowed),
                   !.denied_directories =
                      @ \o load_dirs_from_env(env_denied)]
          IN  /\ file.kind = "absent" \/ (file.kind = "json" /\ Parses(file.doc))
              /\ config' = loaded_config
              /\ seen' = SeenIn(loaded_config.client_history)
              /\ phase' = "init_save"
              /\ UNCHANGED faults
  /\ UNCHANGED <<file, closed, channel, sending, calls, last, worker_vars,
                 ver, json_ver, last_recv_ver, chain_len, chain_writes,
                 write_failed, utc>>
  /\ CanWrite
  /\ lock' = TakenAndDropped("init", "exclusive")
  /\ UNCHANGED <<fresh, applied>>

\* init that keeps the snapshot in memory when it finds no file.
InitLoadKeepingSnapshot(allowed_env, denied_env) ==
  /\ phase = "new"
  /\ \/ /\ faults < MaxFaults
        /\ faults' = faults + 1
        /\ phase' = "init_failed"
        /\ UNCHANGED <<config, seen>>
     \/ /\ file.kind = "malformed" \/ (file.kind = "json" /\ ~Parses(file.doc))
        /\ phase' = "init_failed"
        /\ UNCHANGED <<config, seen, faults>>
     \/ \E env_allowed \in allowed_env, env_denied \in denied_env :
          LET loaded ==
                IF file.kind = "json" THEN Deserialize(file.doc)
                ELSE config
              allowed == load_dirs_from_env(env_allowed)
              denied == load_dirs_from_env(env_denied)
              loaded_config ==
                [loaded EXCEPT
                   !.allowed_directories =
                      IF allowed # << >> THEN allowed ELSE @,
                   !.denied_directories =
                      IF denied # << >> THEN denied ELSE @]
          IN  /\ file.kind = "absent" \/ (file.kind = "json" /\ Parses(file.doc))
              /\ config' = loaded_config
              /\ seen' = SeenIn(loaded_config.client_history)
              /\ phase' = "init_save"
              /\ UNCHANGED faults
  /\ UNCHANGED <<file, closed, channel, sending, calls, last, worker_vars,
                 ver, json_ver, last_recv_ver, chain_len, chain_writes,
                 write_failed, utc, fresh, applied>>
  /\ CanWrite
  /\ lock' = TakenAndDropped("init", "exclusive")

\* ConfigManager::init up to `*self.config.write() = loaded_config`.
InitLoad(allowed_env, denied_env) ==
  /\ phase = "new"
  /\ \/ \* create_dir_all fails
        /\ faults < MaxFaults
        /\ faults' = faults + 1
        /\ phase' = "init_failed"
        /\ UNCHANGED <<config, seen>>
     \/ \* read_to_string gives a document that from_str rejects
        /\ file.kind = "malformed" \/ (file.kind = "json" /\ ~Parses(file.doc))
        /\ phase' = "init_failed"
        /\ UNCHANGED <<config, seen, faults>>
     \/ \E env_allowed \in allowed_env, env_denied \in denied_env :
          LET loaded ==
                IF file.kind = "json" THEN Deserialize(file.doc)
                ELSE DefaultConfig
              allowed == load_dirs_from_env(env_allowed)
              denied == load_dirs_from_env(env_denied)
              loaded_config ==
                [loaded EXCEPT
                   !.allowed_directories =
                      IF allowed # << >> THEN allowed ELSE @,
                   !.denied_directories =
                      IF denied # << >> THEN denied ELSE @]
          IN  /\ file.kind = "absent" \/ (file.kind = "json" /\ Parses(file.doc))
              /\ config' = loaded_config
              /\ seen' = SeenIn(loaded_config.client_history)
              /\ phase' = "init_save"
              /\ UNCHANGED faults
  /\ UNCHANGED <<file, closed, channel, sending, calls, last, worker_vars,
                 ver, json_ver, last_recv_ver, chain_len, chain_writes,
                 write_failed, utc>>
  /\ CanWrite
  /\ lock' = TakenAndDropped("init", "exclusive")
  /\ UNCHANGED <<fresh, applied>>

\* ConfigManager::init: self.save_to_disk().await?
InitSave ==
  /\ phase = "init_save"
  /\ \/ /\ file' = FileJson(Serialize(config))
        /\ phase' = "ready"
        /\ UNCHANGED <<faults, write_failed>>
     \/ /\ faults < MaxFaults
        /\ faults' = faults + 1
        /\ write_failed' = TRUE
        /\ phase' = "init_failed"
        /\ UNCHANGED file
  /\ UNCHANGED <<config, closed, channel, sending, calls, last, worker_vars,
                 history_vars, utc>>
  /\ UNCHANGED lock

\* set_value reporting the fate of the writes: Ok when no write has failed.
SetValueAwaitingWrite(key, value) ==
  /\ phase = "ready"
  /\ calls < MaxCalls
  /\ CanWrite
  /\ lock' = TakenAndDropped("caller", "exclusive")
  /\ UNCHANGED fresh
  /\ LET r == set_value(config, key, value)
     IN  /\ config' = r.cfg
         /\ last' = [op |-> "set_value", args |-> <<key, value>>,
                      ok |-> r.res.ok /\ ~write_failed,
                      err |-> IF r.res.ok THEN << >> ELSE r.res.err]
         /\ IF r.res.ok
              THEN /\ ver' = ver + 1
                   /\ sending' = sending \cup {ver + 1}
                   /\ applied' = Append(applied, <<key, value>>)
              ELSE UNCHANGED <<ver, sending, applied>>
  /\ calls' = calls + 1
  /\ UNCHANGED <<file, phase, closed, channel, worker_vars, json_ver,
                 last_recv_ver, chain_len, chain_writes, seen, faults,
                 write_failed, utc>>

\* set_value working on a copy of the snapshot taken before the lock: the
\* copy the file holds.  The whole copy is stored back.
SetValueOnStaleCopy(key, value) ==
  /\ phase = "ready"
  /\ calls < MaxCalls
  /\ CanWrite
  /\ lock' = TakenAndDropped("caller", "exclusive")
  /\ LET copy == IF file.kind = "json" THEN Deserialize(file.doc) ELSE config
         r == set_value(copy, key, value)
     IN  /\ config' = IF r.res.ok THEN r.cfg ELSE config
         /\ last' = [op |-> "set_value", args |-> <<key, value>>,
                      ok |-> r.res.ok,
                      err |-> IF r.res.ok THEN << >> ELSE r.res.err]
         /\ IF r.res.ok
              THEN /\ ver' = ver + 1
                   /\ sending' = sending \cup {ver + 1}
                   /\ applied' = Append(applied, <<key, value>>)
              ELSE UNCHANGED <<ver, sending, applied>>
  /\ calls' = calls + 1
  /\ UNCHANGED <<file, phase, closed, channel, worker_vars, json_ver,
                 last_recv_ver, chain_len, chain_writes, seen, fresh, faults,
                 write_failed, utc>>

\* ConfigManager::set_value, its locked block.  The send follows in Send.
SetValue(key, value) ==
  /\ phase = "ready"
  /\ calls < MaxCalls
  /\ LET r == set_value(config, key, value)
     IN  /\ config' = r.cfg
         /\ last' = [op |-> "set_value", args |-> <<key, value>>,
                      ok |-> r.res.ok,
                      err |-> IF r.res.ok THEN << >> ELSE r.res.err]
         /\ IF r.res.ok
              THEN /\ ver' = ver + 1
                   /\ sending' = sending \cup {ver + 1}
                   /\ applied' = Append(applied, <<key, value>>)
              ELSE UNCHANGED <<ver, sending, applied>>
  /\ calls' = calls + 1
  /\ UNCHANGED <<file, phase, closed, channel, worker_vars, json_ver,
                 last_recv_ver, chain_len, chain_writes, seen, faults,
                 write_failed, utc>>
  /\ CanWrite
  /\ lock' = TakenAndDropped("caller", "exclusive")
  /\ UNCHANGED fresh

\* ConfigManager::set_client_info, its locked block.
SetClientInfo(client_info) ==
  /\ phase = "ready"
  /\ calls < MaxCalls
  /\ \E now \in {utc, Min(utc + 1, MaxUtc)} :
       /\ utc' = now
       /\ config' = set_client_info(config, client_info, now)
       /\ seen' = [seen EXCEPT ![client_info] =
                     [first |-> IF @.first = NoTime THEN now ELSE @.first,
                      last |-> now]]
  /\ last' = [op |-> "set_client_info", args |-> <<client_info>>,
              ok |-> TRUE, err |-> << >>]
  /\ ver' = ver + 1
  /\ sending' = sending \cup {ver + 1}
  /\ calls' = calls + 1
  /\ UNCHANGED <<file, phase, closed, channel, worker_vars, json_ver,
                 last_recv_ver, chain_len, chain_writes, faults,
                 write_failed>>
  /\ CanWrite
  /\ lock' = TakenAndDropped("caller", "exclusive")
  /\ UNCHANGED <<fresh, applied>>

\* ConfigManager::set_value called on a manager whose init has not yet
\* assigned the snapshot: the locked block is the same.
EarlySetValue(key, value) ==
  /\ phase = "new"
  /\ calls < MaxCalls
  /\ LET r == set_value(config, key, value)
     IN  /\ config' = r.cfg
         /\ last' = [op |-> "set_value", args |-> <<key, value>>,
                      ok |-> r.res.ok,
                      err |-> IF r.res.ok THEN << >> ELSE r.res.err]
         /\ IF r.res.ok
              THEN /\ ver' = ver + 1
                   /\ sending' = sending \cup {ver + 1}
                   /\ applied' = Append(applied, <<key, value>>)
              ELSE UNCHANGED <<ver, sending, applied>>
  /\ calls' = calls + 1
  /\ UNCHANGED <<file, phase, closed, channel, worker_vars, json_ver,
                 last_recv_ver, chain_len, chain_writes, seen, fresh, faults,
                 write_failed, utc>>
  /\ CanWrite
  /\ lock' = TakenAndDropped("caller", "exclusive")

\* ConfigManager::set_client_info called on such a manager.
EarlySetClientInfo(client_info) ==
  /\ phase = "new"
  /\ calls < MaxCalls
  /\ \E now \in {utc, Min(utc + 1, MaxUtc)} :
       /\ utc' = now
       /\ config' = set_client_info(config, client_info, now)
       /\ seen' = [seen EXCEPT ![client_info] =
                     [first |-> IF @.first = NoTime THEN now ELSE @.first,
                      last |-> now]]
  /\ last' = [op |-> "set_client_info", args |-> <<client_info>>,
              ok |-> TRUE, err |-> << >>]
  /\ ver' = ver + 1
  /\ sending' = sending \cup {ver + 1}
  /\ calls' = calls + 1
  /\ UNCHANGED <<file, phase, closed, channel, worker_vars, json_ver,
                 last_recv_ver, chain_len, chain_writes, fresh, applied,
                 faults, write_failed>>
  /\ CanWrite
  /\ lock' = TakenAndDropped("caller", "exclusive")

\* A send that puts the signal on the channel twice.
SendTwice ==
  /\ \E t \in sending :
       /\ sending' = sending \ {t}
       /\ channel' = Append(Append(channel, t), t)
  /\ UNCHANGED <<config, file, phase, closed, calls, last, worker_vars,
                 history_vars, faults, write_failed, utc, lock>>

\* A call that returns without its send.
SendForgotten ==
  /\ \E t \in sending : sending' = sending \ {t}
  /\ UNCHANGED <<config, file, phase, closed, channel, calls, last,
                 worker_vars, history_vars, faults, write_failed, utc>>
  /\ UNCHANGED lock

\* let _ = self.save_sender.send(())
Send ==
  /\ \E t \in sending :
       /\ sending' = sending \ {t}
       /\ channel' = Append(channel, t)
  /\ UNCHANGED <<config, file, phase, closed, calls, last, worker_vars,
                 history_vars, faults, write_failed, utc>>
  /\ UNCHANGED lock

\* start_server returns, or fails at init: the ConfigManager and its clones
\* are dropped, and with them every sender.
DropManager ==
  /\ phase \in {"ready", "init_failed"}
  /\ sending = {}
  /\ phase' = IF phase = "ready" THEN "dropped" ELSE "aborted"
  /\ closed' = TRUE
  /\ UNCHANGED <<config, file, channel, sending, calls, last, worker_vars,
                 history_vars, faults, write_failed, utc>>
  /\ UNCHANGED lock

\* ConfigManager::get_value: a read under the shared lock.
GetValue(key) ==
  /\ phase = "ready"
  /\ CanRead
  /\ get_value(config, key).some \in BOOLEAN
  /\ UNCHANGED vars

\* GetConfigTool::execute writing what it made back into the store.
GetConfigStoring ==
  /\ phase = "ready"
  /\ CanWrite
  /\ config' = execute(config, CONFIG_SAVE_ERRORS)
  /\ last' = [op |-> "get_config", args |-> << >>, ok |-> TRUE,
              err |-> << >>, ret |-> config']
  /\ UNCHANGED <<file, phase, closed, channel, sending, calls, worker_vars,
                 history_vars, faults, write_failed, utc, lock>>

\* The tool get_config: GetConfigTool::execute up to the snapshot it reports.
GetConfig ==
  /\ phase = "ready"
  /\ CanRead
  /\ last' = [op |-> "get_config", args |-> << >>, ok |-> TRUE,
              err |-> << >>, ret |-> execute(config, CONFIG_SAVE_ERRORS)]
  /\ UNCHANGED <<config, file, phase, closed, channel, sending, calls,
                 worker_vars, history_vars, faults, write_failed, utc, lock>>

\* ------------------------------------------------- start_background_saver
\* The debounce test against the poll interval instead of the window.
DebounceElapsedAtPoll == since_request >= POLL_MS

\* last_save_request.elapsed().as_millis() >= DEBOUNCE_MS
DebounceElapsed == since_request >= DEBOUNCE_MS

\* The recv branch with the timestamp taken for the first signal alone: a
\* batch at a fixed rate.
WorkerRecvKeepingTimestamp ==
  /\ worker_pc = "select"
  /\ channel # << >>
  /\ has_pending_save' = TRUE
  /\ since_request' = IF has_pending_save THEN since_request ELSE 0
  /\ channel' = Tail(channel)
  /\ sleep_left' = POLL_MS
  /\ last_recv_ver' = Head(channel)
  /\ IF chain_len > 0 /\ since_request < DEBOUNCE_MS
       THEN /\ chain_len' = chain_len + 1
            /\ UNCHANGED chain_writes
       ELSE /\ chain_len' = 1
            /\ chain_writes' = 0
  /\ UNCHANGED <<config, file, phase, closed, sending, calls, last,
                 worker_pc, json, CONFIG_SAVE_ERRORS, ver, json_ver, seen,
                 faults, write_failed, utc, lock>>
  /\ fresh' = TRUE
  /\ UNCHANGED applied

\* The branch `Some(()) = save_receiver.recv()`.
WorkerRecv ==
  /\ worker_pc = "select"
  /\ channel # << >>
  /\ has_pending_save' = TRUE
  /\ since_request' = 0
  /\ channel' = Tail(channel)
  /\ sleep_left' = POLL_MS
  /\ last_recv_ver' = Head(channel)
  /\ IF chain_len > 0 /\ since_request < DEBOUNCE_MS
       THEN /\ chain_len' = chain_len + 1
            /\ UNCHANGED chain_writes
       ELSE /\ chain_len' = 1
            /\ chain_writes' = 0
  /\ UNCHANGED <<config, file, phase, closed, sending, calls, last,
                 worker_pc, json, CONFIG_SAVE_ERRORS, ver, json_ver, seen,
                 faults, write_failed, utc>>
  /\ UNCHANGED lock
  /\ fresh' = TRUE
  /\ UNCHANGED applied

\* The branch `() = sleep(100 ms)` with nothing to save yet.
WorkerIdle ==
  /\ worker_pc = "select"
  /\ sleep_left = 0
  /\ ~(has_pending_save /\ DebounceElapsed)
  /\ sleep_left' = POLL_MS
  /\ UNCHANGED <<store_vars, has_pending_save, since_request, worker_pc,
                 json, CONFIG_SAVE_ERRORS, history_vars, faults,
                 write_failed, utc>>
  /\ UNCHANGED lock

\* The save with the read guard alive until after the write.
WorkerSaveHoldingGuard ==
  /\ worker_pc = "select"
  /\ sleep_left = 0
  /\ has_pending_save /\ DebounceElapsed
  /\ CanRead
  /\ lock' = lock \cup {Guard("worker", "shared")}
  /\ json' = Some(Serialize(config))
  /\ json_ver' = ver
  /\ chain_writes' = chain_writes + 1
  /\ worker_pc' = "write"
  /\ UNCHANGED <<store_vars, has_pending_save, since_request, sleep_left,
                 CONFIG_SAVE_ERRORS, ver, last_recv_ver, chain_len, seen,
                 faults, write_failed, utc>>
  /\ fresh' = FALSE
  /\ UNCHANGED applied

\* The branch `() = sleep(100 ms)` with a save due: the snapshot is serialized
\* under the read lock, the lock is released and fs::write begins.
WorkerSave ==
  /\ worker_pc = "select"
  /\ sleep_left = 0
  /\ has_pending_save /\ DebounceElapsed
  /\ json' = Some(Serialize(config))
  /\ json_ver' = ver
  /\ chain_writes' = chain_writes + 1
  /\ worker_pc' = "write"
  /\ UNCHANGED <<store_vars, has_pending_save, since_request, sleep_left,
                 CONFIG_SAVE_ERRORS, ver, last_recv_ver, chain_len, seen,
                 faults, write_failed, utc>>
  /\ CanRead
  /\ lock' = TakenAndDropped("worker", "shared")
  /\ fresh' = FALSE
  /\ UNCHANGED applied

\* The same branch when to_string_pretty fails: `continue`.
WorkerSerializeFails ==
  /\ worker_pc = "select"
  /\ sleep_left = 0
  /\ has_pending_save /\ DebounceElapsed
  /\ faults < MaxFaults
  /\ faults' = faults + 1
  /\ sleep_left' = POLL_MS
  /\ UNCHANGED <<store_vars, has_pending_save, since_request, worker_pc,
                 json, CONFIG_SAVE_ERRORS, ver, json_ver, last_recv_ver,
                 chain_len, chain_writes, seen, write_failed, utc>>
  /\ fresh' = FALSE
  /\ UNCHANGED applied
  /\ CanRead
  /\ lock' = TakenAndDropped("worker", "shared")

\* The write whose failure ends the worker task.
WorkerWriteEndingOnError ==
  /\ worker_pc = "write"
  /\ \/ /\ file' = FileJson(json.v)
        /\ worker_pc' = "select"
        /\ UNCHANGED <<CONFIG_SAVE_ERRORS, faults, write_failed>>
     \/ /\ faults < MaxFaults
        /\ faults' = faults + 1
        /\ write_failed' = TRUE
        /\ CONFIG_SAVE_ERRORS' = CONFIG_SAVE_ERRORS + 1
        /\ worker_pc' = "done"
        /\ UNCHANGED file
  /\ has_pending_save' = FALSE
  /\ sleep_left' = POLL_MS
  /\ json' = None
  /\ UNCHANGED <<config, phase, closed, channel, sending, calls, last,
                 since_request, history_vars, utc, lock>>

\* tokio::fs::write(&config_path, json).await returns; has_pending_save = false.
WorkerWrite ==
  /\ worker_pc = "write"
  /\ \/ /\ file' = FileJson(json.v)
        /\ UNCHANGED <<CONFIG_SAVE_ERRORS, faults, write_failed>>
     \/ /\ faults < MaxFaults
        /\ faults' = faults + 1
        /\ write_failed' = TRUE
        /\ CONFIG_SAVE_ERRORS' = CONFIG_SAVE_ERRORS + 1
        /\ UNCHANGED file
  /\ has_pending_save' = FALSE
  /\ worker_pc' = "select"
  /\ sleep_left' = POLL_MS
  /\ json' = None
  /\ UNCHANGED <<config, phase, closed, channel, sending, calls, last,
                 since_request, history_vars, utc>>
  /\ UNCHANGED lock

\* tokio::select! runs `else` when every branch is disabled.  recv() yielding
\* None, which fails the pattern Some(()), disables the first branch; the
\* pattern () of the sleep branch matches whatever the sleep yields.
RecvBranchDisabled == closed /\ channel = << >>
SleepBranchDisabled == FALSE

\* The branch `else`: the final flush, then `break`.
WorkerElse ==
  /\ worker_pc = "select"
  /\ RecvBranchDisabled /\ SleepBranchDisabled
  /\ IF has_pending_save
       THEN file' = FileJson(Serialize(config))
       ELSE UNCHANGED file
  /\ worker_pc' = "done"
  /\ UNCHANGED <<config, phase, closed, channel, sending, calls, last,
                 has_pending_save, since_request, sleep_left, json,
                 CONFIG_SAVE_ERRORS, ver, json_ver, last_recv_ver, chain_len,
                 chain_writes, seen, faults, write_failed, utc>>
  /\ fresh' = IF has_pending_save THEN FALSE ELSE fresh
  /\ UNCHANGED applied
  /\ CanRead
  /\ lock' = TakenAndDropped("worker", "shared")

\* Time passes.  The elapsed time is first read after the first signal, and
\* the sleep is polled in select! alone.
Tick ==
  /\ since_request' = IF chain_len = 0 THEN since_request
                        ELSE Min(since_request + TimeStep, DEBOUNCE_MS)
  /\ sleep_left' = IF worker_pc = "select"
                     THEN Max(sleep_left - TimeStep, 0) ELSE sleep_left
  /\ UNCHANGED <<store_vars, has_pending_save, worker_pc, json,
                 CONFIG_SAVE_ERRORS, history_vars, faults, write_failed, utc>>
  /\ UNCHANGED lock

\* ------------------------------------------------------------ specifications
Worker ==
  WorkerRecv \/ WorkerIdle \/ WorkerSave \/ WorkerSerializeFails
    \/ WorkerWrite \/ WorkerElse

\* The server: start_server, its callers' set_value and set_client_info
\* calls, the worker, the clock.
NextWith(env, kvs, clients) ==
  \/ InitLoad(env, {None})
  \/ InitSave
  \/ \E kv \in kvs : SetValue(kv[1], kv[2])
  \/ \E c \in clients : SetClientInfo(c)
  \/ Send
  \/ DropManager
  \/ WorkerRecv
  \/ WorkerIdle
  \/ WorkerSave
  \/ WorkerSerializeFails
  \/ WorkerWrite
  \/ Tick

Next == NextWith(SystemEnv, SystemCalls, Clients)

Spec == Init /\ [][Next]_vars

\* The same server on a first start, followed for ever: tokio runs the spawned
\* worker and every call in progress, and time passes.
LiveInit == InitWith({FileAbsent})

LiveNext == NextWith({None}, LiveCalls, LiveClients)

Fairness ==
  /\ WF_vars(InitLoad({None}, {None}))
  /\ WF_vars(InitSave)
  /\ WF_vars(Send)
  /\ WF_vars(WorkerRecv)
  /\ WF_vars(WorkerIdle)
  /\ WF_vars(WorkerSave)
  /\ WF_vars(WorkerWrite)
  /\ WF_vars(Tick)

FairSpec == LiveInit /\ [][LiveNext]_vars /\ Fairness

\* The server and its readers: the tools get_config and get_value beside the
\* calls, the worker and the clock.
ReadNext ==
  \/ NextWith({None}, SystemCalls, LiveClients)
  \/ GetConfig
  \/ \E key \in Keys : GetValue(key)

ReadSpec == LiveInit /\ [][ReadNext]_vars

\* The store alone, over every key and value: a server whose init has
\* returned Ok, holding a snapshot earlier calls or an earlier run left, and
\* the one call that follows.
StoreSnapshots ==
  EarlierSnapshots
    \cup { DefaultConfig,
           [DefaultConfig EXCEPT
              !.blocked_commands = << >>,
              !.default_shell = S("/bin/zsh"),
              !.denied_directories = << S("/home/user/projects") >>,
              !.file_read_line_limit = 2500,
              !.file_write_line_limit = 1,
              !.fuzzy_search_threshold = 29,
              !.http_connection_timeout_secs = 600000] }

StoreInit ==
  /\ config \in StoreSnapshots
  /\ file = FileJson(Serialize(config))
  /\ phase = "ready"
  /\ closed = FALSE
  /\ channel = << >>
  /\ sending = {}
  /\ calls = MaxCalls - 1
  /\ last = [op |-> "none", args |-> << >>, ok |-> TRUE, err |-> << >>]
  /\ has_pending_save = FALSE
  /\ since_request = 0
  /\ sleep_left = POLL_MS
  /\ worker_pc = "select"
  /\ json = None
  /\ CONFIG_SAVE_ERRORS = 0
  /\ faults = 0
  /\ write_failed = FALSE
  /\ utc = 0
  /\ ver = 0
  /\ json_ver = 0
  /\ last_recv_ver = 0
  /\ chain_len = 0
  /\ chain_writes = 0
  /\ seen = SeenIn(config.client_history)
  /\ fresh = FALSE
  /\ applied = << >>
  /\ lock = {}

StoreNext ==
  \/ \E key \in Keys, value \in Values : SetValue(key, value)
  \/ \E key \in Keys : GetValue(key)
  \/ Send

StoreSpec == StoreInit /\ [][StoreNext]_vars

\* A server on a first start and callers that race: calls on one key, calls
\* on different keys and a call that fails, each past its locked block before
\* the one before it has returned, and the tools that read.
RaceCalls ==
  { <<"file_read_line_limit", CvNumber(2500)>>,
    <<"file_read_line_limit", CvNumber(1)>>,
    <<"default_shell", CvString(S("/bin/bash"))>>,
    <<"fuzzy_search_threshold", CvNumber(101)>> }

RaceNext ==
  \/ InitLoad({None}, {None})
  \/ InitSave
  \/ \E kv \in RaceCalls : SetValue(kv[1], kv[2])
  \/ Send
  \/ GetConfig
  \/ \E key \in Keys : GetValue(key)

RaceSpec == LiveInit /\ [][RaceNext]_vars

\* A ConfigManager used through its public methods before its init has run:
\* calls made between new() and the assignment of init, the worker and the
\* clock, then init.  The worker's serialization is taken to succeed here; its
\* failure is followed in Spec.
EarlyFiles ==
  {FileAbsent}
    \cup {FileJson(Serialize(c)) :
            c \in {e \in EarlierSnapshots : e.current_client.some}}

EarlyInit == InitWith(EarlyFiles)

EarlyNext ==
  \/ \E kv \in LiveCalls : EarlySetValue(kv[1], kv[2])
  \/ \E c \in LiveClients : EarlySetClientInfo(c)
  \/ Send
  \/ InitLoad(SystemEnv \cup {None}, {None})
  \/ InitSave
  \/ WorkerRecv
  \/ WorkerIdle
  \/ WorkerSave
  \/ WorkerWrite
  \/ Tick

EarlySpec == EarlyInit /\ [][EarlyNext]_vars

\* start_server over every file and environment, and the calls that follow.
LoadInit == InitWith(ProgramFiles \cup EditedFiles)

LoadNext ==
  \/ InitLoad(EnvValues, EnvValues)
  \/ InitSave
  \/ \E kv \in SystemCalls : SetValue(kv[1], kv[2])
  \/ \E c \in Clients : SetClientInfo(c)
  \/ Send
  \/ DropManager

LoadSpec == LoadInit /\ [][LoadNext]_vars

\* ----------------------------------------------------------------- properties
InService == phase \in {"ready", "dropped"}

OnDisk(cfg) == file = FileJson(Serialize(cfg))

Matching(c) ==
  {i \in 1..Len(config.client_history) :
     SameClient(config.client_history[i], c)}

\* C1: the signals of N calls, each received less than DEBOUNCE_MS after the
\* one before it, lead to one write by the worker and never to a second one,
\* and what that write carries was serialized after the call that sent the
\* last signal received had committed: when no call has committed since, it
\* is the serialization of the current snapshot.
C1_OneWritePerWindow ==
  /\ [](chain_writes <= 1)
  /\ [](worker_pc = "write" =>
          /\ json_ver >= last_recv_ver
          /\ json_ver = ver => json = Some(Serialize(config)))
  /\ (chain_len > 0) ~> (chain_writes = 1)

C1_Witness ==
  /\ chain_len >= 2
  /\ chain_writes = 1
  /\ worker_pc = "select"
  /\ ~has_pending_save
  /\ ver = chain_len
  /\ OnDisk(config)

\* C2: once the calls have stopped, and no write of the file has failed, the
\* file of a server that started comes to hold the serialization of the
\* current snapshot and holds it from then on.
C2_FileCatchesUp ==
  <>[]((InService /\ ~write_failed) => OnDisk(config))

\* A call committed, and its signal was sent, while a write was in flight.
C2_Witness ==
  /\ worker_pc = "write"
  /\ json_ver < ver
  /\ channel # << >>
  /\ ~write_failed

\* C3: with every sender dropped, the channel drained and a save pending, the
\* worker's next pass through select! begins the final save, whatever the
\* time since the last signal.
C3_FinalSaveAtOnce ==
  [][(/\ closed
      /\ channel = << >>
      /\ has_pending_save
      /\ worker_pc = "select"
      /\ sleep_left = 0
      /\ sleep_left' = POLL_MS)
       => (worker_pc' # "select" \/ ~has_pending_save')]_vars

\* C4: after every sender is dropped the worker task comes to its end.
C4_WorkerTerminates == closed ~> (worker_pc = "done")

\* C5: a set_value call that returns Err leaves the snapshot as it was and
\* puts no signal on its way to the worker.
C5_FailedSetValueChangesNothing ==
  [][(calls' = calls + 1 /\ last'.op = "set_value" /\ ~last'.ok)
       => (config' = config /\ sending' = sending /\ channel' = channel)]_vars

C5_Witness ==
  /\ last.op = "set_value"
  /\ ~last.ok
  /\ calls = MaxCalls
  /\ last.err # << >>
  /\ config \in StoreSnapshots \ {DefaultConfig}
  /\ OnDisk(config)

\* C6: in every snapshot the three limits are positive, the threshold lies in
\* [0, 1] and path_validation_timeout_ms lies in (0, 600000].
C6_NumericBounds ==
  /\ config.file_read_line_limit > 0
  /\ config.file_write_line_limit > 0
  /\ config.http_connection_timeout_secs > 0
  /\ config.fuzzy_search_threshold >= 0
  /\ config.fuzzy_search_threshold <= 100
  /\ config.path_validation_timeout_ms > 0
  /\ config.path_validation_timeout_ms <= 600000

C8_FirstAndLastSeen ==
  \A c \in Clients :
    seen[c].first # NoTime =>
      /\ Cardinality(Matching(c)) = 1
      /\ \A i \in Matching(c) :
           /\ config.client_history[i].connected_at = seen[c].first
           /\ config.client_history[i].last_seen = seen[c].last

C8_Witness ==
  \E c \in Clients :
    /\ seen[c].first # NoTime
    /\ seen[c].last > seen[c].first
    /\ last.op = "set_client_info"
    /\ config.current_client = Some(c)

\* The values the validation of a key accepts.
Accepted(key, value) ==
  CASE key \in {"file_read_line_limit", "file_write_line_limit",
                "http_connection_timeout_secs"} ->
         value.kind = "Number" /\ value.n > 0
    [] key = "path_validation_timeout_ms" ->
         value.kind = "Number" /\ value.n > 0 /\ value.n <= 600000
    [] key \in {"allowed_directories", "denied_directories",
                "blocked_commands"} ->
         value.kind = "Array"
    [] key = "default_shell" -> value.kind = "String"
    [] OTHER -> FALSE

\* C9: for every key but fuzzy_search_threshold, set_value of a value the
\* key's validation accepts returns Ok and get_value of the key then returns
\* that value.
C9_SetThenGet ==
  [][\A key \in Keys, value \in Values :
       (Accepted(key, value) /\ SetValue(key, value))
         => /\ set_value(config, key, value).res.ok
            /\ get_value(config', key) = Some(value)]_vars

\* C10: set_value of path_validation_timeout_ms stores a number n with
\* 0 < n <= 600000 and returns Err, storing nothing, for any other number.
C10_PathValidationTimeout ==
  [][\A n \in Numbers :
       SetValue("path_validation_timeout_ms", CvNumber(n))
         => IF n > 0 /\ n <= 600000
              THEN /\ last'.ok
                   /\ config'.path_validation_timeout_ms = n
              ELSE /\ ~last'.ok
                   /\ config' = config]_vars

\* The keys of the configuration table.
ConfigKeys ==
  { "blocked_commands", "default_shell", "allowed_directories",
    "denied_directories", "file_read_line_limit", "file_write_line_limit",
    "fuzzy_search_threshold", "http_connection_timeout_secs",
    "path_validation_timeout_ms" }

ArrayKeys == {"blocked_commands", "allowed_directories", "denied_directories"}

PositiveKeys ==
  {"file_read_line_limit", "file_write_line_limit",
   "http_connection_timeout_secs"}

\* The variant of ConfigValue a key takes.
KindOf(key) ==
  IF key \in ArrayKeys THEN "Array"
  ELSE IF key = "default_shell" THEN "String"
  ELSE "Number"

\* A step in which a set_value call returns.
SetValueReturns == calls' = calls + 1 /\ last'.op = "set_value"

Contains(msg, piece) == \E i \in 1..Len(msg) : msg[i] = piece

\* C11: set_value with a key outside the configuration table returns Err
\* whatever the value, its message holds "Unknown config key: " followed by
\* the key, and the snapshot is as it was.
C11_UnknownKey ==
  [][(SetValueReturns /\ last'.args[1] \notin ConfigKeys)
       => /\ ~last'.ok
          /\ \E i \in 1..(Len(last'.err) - 1) :
               /\ last'.err[i] = "Unknown config key: "
               /\ last'.err[i + 1] = last'.args[1]
          /\ config' = config]_vars

C11_Witness ==
  /\ last.op = "set_value"
  /\ last.args[1] = "nonexistent_key"
  /\ last.args[2] = CvArray(<< S("/home/user/projects") >>)
  /\ last.err = <<"Unknown config key: ", "nonexistent_key">>
  /\ config \in StoreSnapshots

\* C12: for file_read_line_limit, file_write_line_limit and
\* http_connection_timeout_secs, set_value of Number(n) with n <= 0 returns
\* Err with "must be positive" in its message and the stored value is as it
\* was; with n > 0 it returns Ok and n is stored.
C12_PositiveLimits ==
  [][(/\ SetValueReturns
      /\ last'.args[1] \in PositiveKeys
      /\ last'.args[2].kind = "Number")
       => LET key == last'.args[1]
              n == last'.args[2].n
          IN  IF n <= 0
                THEN /\ ~last'.ok
                     /\ Contains(last'.err, " must be positive")
                     /\ config'[key] = config[key]
                ELSE /\ last'.ok
                     /\ config'[key] = n]_vars

C12_Witness ==
  /\ last.op = "set_value"
  /\ last.args = <<"http_connection_timeout_secs", CvNumber(0)>>
  /\ last.err = <<"http_connection_timeout_secs", " must be positive">>
  /\ config.http_connection_timeout_secs = 600000

\* C13: for every key of the table, set_value of a value whose variant is not
\* the key's returns Err and the snapshot is as it was: a value is never
\* converted to the variant the key takes.
C13_WrongVariantRejected ==
  [][(/\ SetValueReturns
      /\ last'.args[1] \in ConfigKeys
      /\ last'.args[2].kind # KindOf(last'.args[1]))
       => (~last'.ok /\ config' = config)]_vars

C13_Witness ==
  /\ last.op = "set_value"
  /\ last.args = <<"allowed_directories", CvString(S("/bin/bash"))>>
  /\ ~last.ok
  /\ config.allowed_directories = << S("/old") >>

\* C14: set_value of fuzzy_search_threshold and Number(n) returns Ok exactly
\* when 0 <= n <= 100, and then the stored threshold is the double n/100; for
\* any other n the stored threshold is as it was.
C14_FuzzyThresholdRange ==
  [][(/\ SetValueReturns
      /\ last'.args[1] = "fuzzy_search_threshold"
      /\ last'.args[2].kind = "Number")
       => LET n == last'.args[2].n
          IN  /\ last'.ok <=> (0 <= n /\ n <= 100)
              /\ last'.ok => config'.fuzzy_search_threshold = n
              /\ ~last'.ok => config' = config]_vars

C14_Witness ==
  /\ last.op = "set_value"
  /\ last.args = <<"fuzzy_search_threshold", CvNumber(100)>>
  /\ last.ok
  /\ config.fuzzy_search_threshold = 100

\* The file init finds does not parse.
Unparseable ==
  file.kind = "malformed" \/ (file.kind = "json" /\ ~Parses(file.doc))

\* What init has loaded when it found the file f.
LoadedFrom(f) == IF f.kind = "json" THEN Deserialize(f.doc) ELSE DefaultConfig

\* C15: init that finds a file which does not parse goes on as it does when
\* it finds no file: it commits the default snapshot, with the directory lists
\* of the environment, and returns no error for the parse failure.
C15_MalformedFileIsDefault ==
  [][(/\ phase = "new"
      /\ Unparseable
      /\ phase' # "new"
      /\ faults' = faults)
       => /\ phase' = "init_save"
          /\ [config' EXCEPT !.allowed_directories = << >>,
                             !.denied_directories = << >>] = DefaultConfig]_vars

\* C16: init returns an error only when create_dir_all or its one save has
\* failed.
C16_InitErrorsOnlyOnIo ==
  phase \in {"init_failed", "aborted"} => faults > 0

\* C17: after init, allowed_directories is the list of KODEGEN_ALLOWED_DIRS
\* when that list is not empty, whatever the file held, and otherwise the
\* list loaded from the file, or the default one when no file was loaded; the
\* same for denied_directories and KODEGEN_DENIED_DIRS.
C17_EnvReplacesDirectories ==
  [][\A ea \in EnvValues, ed \in EnvValues :
       (InitLoad({ea}, {ed}) /\ phase' = "init_save")
         => LET a == load_dirs_from_env(ea)
                d == load_dirs_from_env(ed)
            IN  /\ config'.allowed_directories =
                     IF a # << >> THEN a
                     ELSE LoadedFrom(file).allowed_directories
                /\ config'.denied_directories =
                     IF d # << >> THEN d
                     ELSE LoadedFrom(file).denied_directories]_vars

\* The file held /old, the environment gave /a, and init holds /a alone.
C17_Witness ==
  /\ phase = "init_save"
  /\ file.kind = "json"
  /\ file.doc.allowed_directories = << S("/old") >>
  /\ config.allowed_directories = << S("/a") >>
  /\ config.denied_directories = << S("/a"), <<"/b", "x">> >>

\* C18: the file changes only while the worker is in its write: no other
\* operation writes it.
C18_OnlyWorkerWrites ==
  [][file' # file => worker_pc = "write"]_vars

\* A step in which a save attempt of the worker fails.
BackgroundSaveFails == faults' = faults + 1 /\ phase' = phase

\* C19: the counter goes up by one in every step in which a save attempt of
\* the worker fails, at serialization or at the write, and is left alone by
\* every other step.
C19_CounterCountsFailures ==
  [][IF BackgroundSaveFails
       THEN CONFIG_SAVE_ERRORS' = CONFIG_SAVE_ERRORS + 1
       ELSE CONFIG_SAVE_ERRORS' = CONFIG_SAVE_ERRORS]_vars

\* C20: a save attempt that fails leaves the worker with nothing to save: what
\* makes it save on a poll, a pending request whose window has passed, holds
\* again only after a signal is received.
C20_FailedSaveNotRetried ==
  [][BackgroundSaveFails
       => ~(has_pending_save' /\ since_request' >= DEBOUNCE_MS)]_vars

\* Signals on their way to the worker: sends still due and the channel.
InFlight == Cardinality(sending) + Len(channel)

\* A step in which a set_value or set_client_info call returns.
CallReturns == calls' = calls + 1

\* C21: a step in which set_value returns Ok or set_client_info returns puts
\* one signal on its way to the worker; no other step (a failed set_value,
\* get_config, get_value, init, the send itself, the worker, the clock) adds
\* one.
C21_OneSignalPerMutation ==
  [][IF CallReturns /\ last'.ok
       THEN InFlight' = InFlight + 1
       ELSE InFlight' <= InFlight]_vars

\* One call failed and one succeeded: one signal.
C21_Witness ==
  /\ last.op = "set_value"
  /\ ~last.ok
  /\ calls = 2
  /\ ver = 1
  /\ InFlight = 1

C23_DebounceResets ==
  [][/\ (~closed /\ worker_pc = "select" /\ worker_pc' = "write")
          => since_request >= DEBOUNCE_MS
     /\ (Len(channel') < Len(channel))
          => (has_pending_save' /\ since_request' = 0)]_vars

\* A second signal was received while the save of the first was pending.
C23_Witness ==
  /\ ~closed
  /\ chain_len >= 2
  /\ chain_writes = 0
  /\ has_pending_save
  /\ since_request = 0
  /\ worker_pc = "select"

C27_OnlyMutatorsChangeSnapshot ==
  [][(phase # "new" /\ config' # config)
       => (CallReturns /\ last'.op \in {"set_value", "set_client_info"})]_vars

C27_Witness ==
  /\ last.op = "get_config"
  /\ ver = 1
  /\ chain_writes = 1
  /\ CONFIG_SAVE_ERRORS = 1
  /\ last.ret.file_read_line_limit = config.file_read_line_limit
  /\ config.file_read_line_limit = 2500

\* C28: the keys get_value answers are the keys set_value accepts; for every
\* other key get_value returns None and set_value returns the unknown-key
\* error for every value.
C28_SameKeys ==
  LET answered == {k \in Keys : get_value(config, k).some}
      accepted == {k \in Keys :
                     \E v \in Values : set_value(config, k, v).res.ok}
  IN  /\ answered = accepted
      /\ \A k \in Keys \ answered :
           /\ get_value(config, k) = None
           /\ \A v \in Values :
                set_value(config, k, v).res.err = <<"Unknown config key: ", k>>

C28_Witness ==
  /\ last.op = "set_value"
  /\ last.args[1] = "path_validation_timeout_ms"
  /\ last.err = <<"Unknown config key: ", "path_validation_timeout_ms">>
  /\ get_value(config, "path_validation_timeout_ms") = None
  /\ get_value(config, "file_read_line_limit") = Some(CvNumber(2500))

\* C29: the call that has just returned, made once more on the snapshot it
\* left, leaves that snapshot as it is and returns what it returned: Ok again,
\* or the same error.
C29_SetValueIdempotent ==
  [][(CallReturns /\ last'.op = "set_value")
       => LET again == set_value(config', last'.args[1], last'.args[2])
          IN  /\ again.cfg = config'
              /\ again.res.ok = last'.ok
              /\ ~last'.ok => again.res.err = last'.err]_vars

C29_Witness ==
  /\ last.op = "set_value"
  /\ last.ok
  /\ last.args = <<"blocked_commands", CvArray(<< S("/home/user/projects") >>)>>
  /\ config.blocked_commands = << S("/home/user/projects") >>

\* The fields whose values the file is the source of.
Persisted(cfg) == [f \in Fields \ {"system_info"} |-> cfg[f]]

IsPathChunk(c) == ~IsWhitespace(c) /\ ~IsSeparator(c)

\* The positions of s at which a path begins: the first path chunk since the
\* separator before it, or since the start.
PathStarts(s) ==
  {i \in 1..Len(s) :
     /\ IsPathChunk(s[i])
     /\ \A k \in 1..(i - 1) :
          \/ IsWhitespace(s[k])
          \/ \E m \in k..(i - 1) : IsSeparator(s[m])}

\* The last path chunk before the separator that follows position a.
PathEnd(s, a) ==
  CHOOSE b \in a..Len(s) :
    /\ IsPathChunk(s[b])
    /\ \A m \in a..b : ~IsSeparator(s[m])
    /\ \A k \in (b + 1)..Len(s) :
         \/ IsWhitespace(s[k])
         \/ \E m \in (b + 1)..k : IsSeparator(s[m])

\* The list load_dirs_from_env(e) is the one the variable's value e calls for.
SplitTrimmed(e) ==
  LET r == load_dirs_from_env(e)
  IN  IF ~e.some THEN r = << >>
      ELSE /\ Len(r) = Cardinality(PathStarts(e.v))
           /\ \A i \in 1..Len(r) :
                /\ r[i] # << >>
                /\ ~IsWhitespace(r[i][1])
                /\ ~IsWhitespace(r[i][Len(r[i])])
                /\ \A k \in 1..Len(r[i]) : ~IsSeparator(r[i][k])
                /\ \E a \in PathStarts(e.v) :
                     /\ Cardinality({b \in PathStarts(e.v) : b < a}) = i - 1
                     /\ r[i] = SubSeq(e.v, a, PathEnd(e.v, a))

\* C31: the list init loads from a directory variable is empty when the
\* variable is unset; otherwise it holds, in their order, the pieces of the
\* value between separators, each from its first to its last chunk that is
\* not whitespace, and no piece for a segment of whitespace alone: no element
\* is empty, begins or ends with whitespace, or holds a separator.
C31_EnvListSplitTrimmed ==
  [][\A ea \in EnvValues, ed \in EnvValues :
       (InitLoad({ea}, {ed}) /\ phase' = "init_save")
         => /\ SplitTrimmed(ea)
            /\ SplitTrimmed(ed)
            /\ load_dirs_from_env(ea) # << >>
                 => config'.allowed_directories = load_dirs_from_env(ea)
            /\ load_dirs_from_env(ed) # << >>
                 => config'.denied_directories = load_dirs_from_env(ed)]_vars

\* init has committed the lists of a value with whitespace inside a path and
\* of a value with whitespace around its paths and an empty segment.
C31_Witness ==
  /\ phase = "init_save"
  /\ config.allowed_directories = << <<"/my", " ", "dir">> >>
  /\ config.denied_directories = << S("/a"), <<"/b", "x">> >>
  /\ file.kind = "absent"

\* C32: after set_value of fuzzy_search_threshold and Number(n) returns Ok,
\* get_value of fuzzy_search_threshold returns Number(n).
C32_FuzzyRoundTrip ==
  [][(/\ SetValueReturns
      /\ last'.args[1] = "fuzzy_search_threshold"
      /\ last'.ok)
       => get_value(config', "fuzzy_search_threshold") = Some(last'.args[2])]_vars

\* A step in which the worker's write of the file fails.
BackgroundWriteFails ==
  worker_pc = "write" /\ CONFIG_SAVE_ERRORS' = CONFIG_SAVE_ERRORS + 1

\* C33: a write of the worker that fails leaves the worker in select! with
\* nothing pending; a signal received after that makes a save pending with
\* its time at zero, and a save pending after a failed write leads to a new
\* write.
C33_SavesGoOnAfterFailure ==
  /\ [][BackgroundWriteFails
          => (worker_pc' = "select" /\ ~has_pending_save')]_vars
  /\ [][(CONFIG_SAVE_ERRORS > 0 /\ Len(channel') < Len(channel))
          => (has_pending_save' /\ since_request' = 0)]_vars
  /\ (CONFIG_SAVE_ERRORS > 0 /\ has_pending_save) ~> (worker_pc = "write")

\* The write of the first call failed; the write of the second is in flight.
C33_Witness ==
  /\ CONFIG_SAVE_ERRORS = 1
  /\ worker_pc = "write"
  /\ chain_writes = 1
  /\ json_ver = 2
  /\ ~OnDisk(config)

\* A step in which the worker begins a write of the file.
WriteBegins == worker_pc = "select" /\ worker_pc' = "write"

\* C34: the worker begins a write only when a save is pending; when no signal
\* has been received since its last save attempt a poll begins no write; and
\* the writes begun since a window of signals opened are never more than the
\* signals received in it.
C34_WritesOnlyWhenPending ==
  /\ [][WriteBegins => has_pending_save]_vars
  /\ [][WriteBegins => fresh]_vars
  /\ [](chain_writes <= chain_len)

\* The snapshot after the calls of seq, made one after the other on cfg.
RECURSIVE Replay(_, _)
Replay(cfg, seq) ==
  IF seq = << >> THEN cfg
  ELSE Replay(set_value(cfg, Head(seq)[1], Head(seq)[2]).cfg, Tail(seq))

\* The snapshots a reader may see: after each prefix of the calls.
Prefixes == {Replay(DefaultConfig, SubSeq(applied, 1, n)) : n \in 0..Len(applied)}

\* C35: on a server started with no file, the snapshot is the one the
\* set_value calls that returned Ok give when made one after the other in the
\* order of their locked blocks, whichever of them had returned when the next
\* began: the value of the last call on each key is in the snapshot, and what
\* get_config and get_value return is what they return on the snapshot after
\* a prefix of that order.
C35_Linearizable ==
  phase = "ready" =>
    /\ config = Replay(DefaultConfig, applied)
    /\ \A i \in 1..Len(applied) :
         (\A j \in (i + 1)..Len(applied) : applied[j][1] # applied[i][1])
           => get_value(config, applied[i][1]) = Some(applied[i][2])
    /\ last.op = "get_config" =>
         \E c \in Prefixes :
           last.ret = execute(c, last.ret.save_error_count)
    /\ \A key \in Keys :
         \E c \in Prefixes : get_value(config, key) = get_value(c, key)

\* Two calls on different keys, neither returned, and a get_config after both.
C35_Witness ==
  /\ Cardinality(sending) = 2
  /\ applied = << <<"default_shell", CvString(S("/bin/bash"))>>,
                  <<"file_read_line_limit", CvNumber(2500)>> >>
  /\ last.op = "get_config"
  /\ last.ret.default_shell = S("/bin/bash")
  /\ last.ret.file_read_line_limit = 2500

\* C36: a set_value call that returns Ok leaves every field but the one its
\* key names as it was: the other settings, current_client, client_history.
C36_SetValueFrame ==
  [][(SetValueReturns /\ last'.ok)
       => \A f \in Fields \ {last'.args[1]} : config'[f] = config[f]]_vars

\* A limit was set on a snapshot with a client and other settings changed.
C36_Witness ==
  /\ last.op = "set_value"
  /\ last.ok
  /\ last.args = <<"file_write_line_limit", CvNumber(1)>>
  /\ config.file_write_line_limit = 1
  /\ config.file_read_line_limit = 2500
  /\ config.current_client = Some(Client("claude", "1.0"))
  /\ Len(config.client_history) = 1

\* C37: a set_client_info call leaves every settings field as it was, and
\* changes client_history in one of two ways: with no record of the client, one
\* record of it is added at the end; with a record of it, that record gets a
\* new last_seen.  Every other record keeps its place and all it holds, and
\* the history never gets shorter.
C37_SetClientInfoFrame ==
  [][(CallReturns /\ last'.op = "set_client_info")
       => LET c == last'.args[1]
              h == config.client_history
              g == config'.client_history
              found == {i \in 1..Len(h) : SameClient(h[i], c)}
          IN  /\ \A f \in Fields \ {"current_client", "client_history"} :
                   config'[f] = config[f]
              /\ Len(g) >= Len(h)
              /\ IF found = {}
                   THEN /\ Len(g) = Len(h) + 1
                        /\ SubSeq(g, 1, Len(h)) = h
                        /\ g[Len(g)].client_info = c
                   ELSE /\ Len(g) = Len(h)
                        /\ \E i \in found :
                             /\ \A j \in 1..Len(h) : j # i => g[j] = h[j]
                             /\ g[i] = [h[i] EXCEPT !.last_seen = g[i].last_seen]]_vars

\* The client of a record loaded from the file calls after a new client: the
\* record of the new client, behind it, is as it was.
C37_Witness ==
  /\ last.op = "set_client_info"
  /\ last.args = << Client("claude", "1.0") >>
  /\ file.kind = "json"
  /\ Len(file.doc.client_history) = 1
  /\ Len(config.client_history) = 2
  /\ config.client_history[1] = Record(Client("claude", "1.0"), 0, 2)
  /\ config.client_history[2] = Record(Client("claude", "2.0"), 1, 1)

\* The current client of cfg, when there is one, has a record in its history.
CurrentClientRecorded(cfg) ==
  cfg.current_client.some =>
    \E i \in 1..Len(cfg.client_history) :
      SameClient(cfg.client_history[i], cfg.current_client.v)

\* C38: on a server started from the default snapshot, whatever set_value and
\* set_client_info calls were made and in whatever order, the current client
\* of the snapshot has a record in its history, and so has the current client
\* of every snapshot get_config has returned.
C38_CurrentClientHasRecord ==
  /\ CurrentClientRecorded(config)
  /\ last.op = "get_config" => CurrentClientRecorded(last.ret)

\* get_config after a set_value and a set_client_info, neither returned yet.
C38_Witness ==
  /\ last.op = "get_config"
  /\ last.ret.current_client = Some(Client("claude", "1.0"))
  /\ Len(last.ret.client_history) = 1
  /\ last.ret.file_read_line_limit = 2500
  /\ Cardinality(sending) = 2

\* What init is to commit when it finds the file f and the lists ea and ed
\* in the environment: nothing of the snapshot in memory enters it.
LoadedWithEnv(f, ea, ed) ==
  LET a == load_dirs_from_env(ea)
      d == load_dirs_from_env(ed)
  IN  [LoadedFrom(f) EXCEPT
         !.allowed_directories = IF a # << >> THEN a ELSE @,
         !.denied_directories = IF d # << >> THEN d ELSE @]

\* C39: the assignment of init makes the snapshot the configuration loaded
\* from the file, or the default one, with the lists of the environment,
\* whatever set_value and set_client_info calls had committed before it; the
\* save that follows leaves the snapshot alone; so a call made before the
\* assignment is in the snapshot afterwards only when the file read held it.
C39_InitReplacesSnapshot ==
  [][/\ \A ea \in SystemEnv \cup {None} :
          (InitLoad({ea}, {None}) /\ phase' = "init_save")
            => config' = LoadedWithEnv(file, ea, None)
     /\ (phase = "init_save" /\ phase' # phase) => config' = config]_vars

\* Two calls committed before init; the file was absent; init returned Ok and
\* the snapshot is the default one.
C39_Witness ==
  /\ phase = "ready"
  /\ applied # << >>
  /\ ver = 2
  /\ last.op = "set_client_info"
  /\ config = DefaultConfig
  /\ OnDisk(DefaultConfig)

====
